---- MODULE Spec2Model ----
(***************************************************************************)
(* Model of the test-automation template.                                   *)
(*                                                                         *)
(* The HTTP request helper (src/src/api/common-api-requests.ts): one       *)
(* invocation of sendCommonApiRequest is two steps, split at the await of  *)
(* the axios call: the part before the await (destructuring, URL, headers, *)
(* method switch) and the part after it (axios settling the promise, the   *)
(* returnType switch).  The server's answer is an input of the second      *)
(* step.                                                                   *)
(*                                                                         *)
(* The environment configuration (src/src/utils/env_helper/env.ts): the    *)
(* evaluation of the module merges the .env file into process.env and      *)
(* parses process.env with the schema; it either exports env or throws.    *)
(*                                                                         *)
(* The endpoint registry (src/src/api/config/urls.ts): the evaluation of   *)
(* the module parses the configured mapping with urlsSchema.               *)
(*                                                                         *)
(* The fixtures (src/src/fixtures/fixture.ts): every test requests one     *)
(* fixture; the runner runs the fixture functions up to their use(...),    *)
(* then the test body, then the statements after use(...).  Every awaited  *)
(* operation of a fixture function is one step, and the steps of different *)
(* tests interleave.  API client methods go through the request helper.    *)
(***************************************************************************)
EXTENDS Integers, Sequences, FiniteSets, TLC

VARIABLES
    processEnv,   \* process.env, as far as the helper reads it
    pc,           \* "idle" | "awaiting" (axios call in flight) | "done"
    data,         \* the CommonApiData argument of the current invocation
    options,      \* the CommonApiOptions argument of the current invocation
    calls,        \* the axios calls issued by the current invocation, in order
    response,     \* what the network gave for the call of the current invocation
    outcome,      \* how the current invocation ended: returned a value or raised
    prev,         \* the preceding invocation, when the current one repeats its request
    nInvoked,     \* total number of invocations made with a method of HttpMethods
    nIssued,      \* total number of axios calls issued so far
    preEnv,       \* process.env as it was before env.ts was evaluated
    dotenvFile,   \* the .env file: absent, or the variables it defines
    config,       \* the evaluation of env.ts: not yet, exported env, or thrown
    imported,     \* the env binding an importing module (fixture.ts) holds
    urlsInput,    \* the mapping given to urlsSchema.parse
    urls,         \* the evaluation of urls.ts: not yet, exported urls, or thrown
    tests,        \* the tests of the run: fixture requested, progress, what the body was given
    pages,        \* the browser pages opened so far, in the order of browser.newPage()
    heap          \* the number of page managers and API clients constructed so far

helperVars == <<pc, data, options, calls, response, outcome, prev, nInvoked, nIssued>>

envVars == <<preEnv, dotenvFile, config, imported>>

registryVars == <<urlsInput, urls>>

fixtureVars == <<tests, pages, heap>>

vars == <<processEnv, helperVars, envVars, registryVars, fixtureVars>>

----------------------------------------------------------------------------
(* Bounds of the model *)

MaxInvocations == 3

----------------------------------------------------------------------------
(* Values *)

EmptyRec == [x \in {} |-> 0]

\* a property a JavaScript object may lack: absent from the record's domain
Has(obj, field) == field \in DOMAIN obj

Opt(field, S) == {EmptyRec} \cup {field :> v : v \in S}

Null == [null |-> TRUE]

\* no .env file at envPath
NoFile == [present |-> FALSE]

\* env.ts has not been evaluated
NotEvaluated == [kind |-> "not evaluated"]

\* no module holds the env binding
NotImported == [kind |-> "none"]

\* the tests of a run
Tests == {"t1", "t2"}

\* what a test body is given before any fixture has been set up
NoValue == [kind |-> "none"]

\* a test that has not started
IdleTest ==
    [fixture |-> "none", phase |-> "idle", step |-> 0, page |-> 0, client |-> 0,
     given |-> NoValue, calling |-> FALSE, call |-> NoValue, methodCalls |-> 0,
     status |-> "running", error |-> NoValue, loginCalls |-> 0, authResponse |-> NoValue]

\* const urlsConfig
urlsConfig ==
    [auth |-> [login |-> "auth/login", logout |-> "auth/logout", refresh |-> "auth/refresh"],
     users |-> [profile |-> "users/profile", create |-> "users", update |-> "users",
                delete |-> "users"],
     template |-> [getData |-> "template/data", postData |-> "template/data",
                   updateData |-> "template/data", deleteData |-> "template/data"]]

HttpMethods == {"GET", "POST", "PUT", "DELETE", "PATCH"}

\* a method outside the enumeration, as an untyped caller can pass it
OtherMethods == {"HEAD"}

LocalhostApi == "http://localhost:3000/api"

PlaceholderToken == "token"

BaseUrls == {"https://x.test/api"}

Endpoints == {"users/profile/123"}

Bodies == {[name |-> "Template Test"]}

Tokens == {"", "abc"}

EnvApiBaseUrls == {"https://env.test/api"}

ReturnTypes == {"data", "both", "full", "raw"}

Statuses == {200, 399, 400, 401}

Payloads == {[id |-> "p1"], [error |-> "denied"]}

CommonApiData ==
    { [method |-> m, endpoint |-> e] @@ b @@ bd @@ t :
        m \in HttpMethods \cup OtherMethods, e \in Endpoints,
        b \in Opt("baseUrl", BaseUrls), bd \in Opt("body", Bodies),
        t \in Opt("token", Tokens) }

CommonApiOptions ==
    { a @@ r : a \in Opt("allowBadRequest", BOOLEAN),
               r \in Opt("returnType", ReturnTypes) }

----------------------------------------------------------------------------
(* The helper, before the await *)

\* RequestUrl without the separator
RequestUrl_noSeparator(baseUrl, endpoint) == baseUrl \o endpoint

\* ${baseUrl}/${endpoint}
RequestUrl(baseUrl, endpoint) == baseUrl \o "/" \o endpoint

\* BaseUrlOf without the read of process.env
BaseUrlOf_noEnv(d, penv) == IF Has(d, "baseUrl") THEN d.baseUrl ELSE LocalhostApi

\* baseUrl = process.env.API_BASE_URL || 'http://localhost:3000/api'
BaseUrlOf(d, penv) ==
    IF Has(d, "baseUrl") THEN d.baseUrl
    ELSE IF Has(penv, "API_BASE_URL") /\ penv.API_BASE_URL # ""
         THEN penv.API_BASE_URL
         ELSE LocalhostApi

\* body = null
BodyOf(d) == IF Has(d, "body") THEN d.body ELSE Null

\* allowBadRequest = false
AllowBadRequestOf(o) == IF Has(o, "allowBadRequest") THEN o.allowBadRequest ELSE FALSE

\* returnType = 'data'
ReturnTypeOf(o) == IF Has(o, "returnType") THEN o.returnType ELSE "data"

\* AuthTokenOf without the placeholder: token is passed on as it came
AuthTokenOf_noPlaceholder(d) == IF Has(d, "token") THEN d.token ELSE ""

\* token || 'token'
AuthTokenOf(d) == IF Has(d, "token") /\ d.token # "" THEN d.token ELSE PlaceholderToken

\* generateCommonHeaders announcing another content type
generateCommonHeaders_otherContentType(authToken) ==
    LET headers == [accept |-> "*/*"] @@ ("Content-Type" :> "text/plain")
    IN  IF authToken # ""
        THEN headers @@ ("Authorization" :> ("Bearer " \o authToken))
        ELSE headers

generateCommonHeaders(authToken) ==
    LET headers == [accept |-> "*/*"] @@ ("Content-Type" :> "application/json")
    IN  IF authToken # ""
        THEN headers @@ ("Authorization" :> ("Bearer " \o authToken))
        ELSE headers

\* validateStatus with the boundary off by one: status <= 400
validateStatus_offByOne(allowBadRequest, status) == allowBadRequest \/ status <= 400

\* validateStatus without the allowBadRequest knob
validateStatus_ignoresAllow(allowBadRequest, status) == status < 400

\* validateStatus accepting 2xx only, as axios does by default
validateStatus_successOnly(allowBadRequest, status) == allowBadRequest \/ status < 300

\* (status) => allowBadRequest || status < 400
validateStatus(allowBadRequest, status) == allowBadRequest \/ status < 400

\* one axios call (axios.get, axios.post, ...): the HTTP verb, the URL, the body argument when the verb takes
\* one, and the config { headers, validateStatus }
AxiosCall(verb, url, body, headers, allowBadRequest) ==
    [verb |-> verb, url |-> url, body |-> body, headers |-> headers,
     validateStatus |-> allowBadRequest]

NoBody == [nobody |-> TRUE]

\* SwitchMethod with the PUT case calling axios.post
SwitchMethod_putAsPost(method, requestUrl, body, headers, allowBadRequest) ==
    CASE method \in {"GET", "DELETE"} ->
           [threw |-> FALSE,
            issued |-> <<AxiosCall(method, requestUrl, NoBody, headers, allowBadRequest)>>]
      [] method \in {"POST", "PUT"} ->
           [threw |-> FALSE,
            issued |-> <<AxiosCall("POST", requestUrl, body, headers, allowBadRequest)>>]
      [] method = "PATCH" ->
           [threw |-> FALSE,
            issued |-> <<AxiosCall("PATCH", requestUrl, body, headers, allowBadRequest)>>]
      [] OTHER ->
           [threw |-> TRUE, issued |-> <<>>]

\* SwitchMethod with the DELETE case passing the body on
SwitchMethod_deleteWithBody(method, requestUrl, body, headers, allowBadRequest) ==
    CASE method = "GET" ->
           [threw |-> FALSE,
            issued |-> <<AxiosCall("GET", requestUrl, NoBody, headers, allowBadRequest)>>]
      [] method \in {"POST", "PUT", "DELETE", "PATCH"} ->
           [threw |-> FALSE,
            issued |-> <<AxiosCall(method, requestUrl, body, headers, allowBadRequest)>>]
      [] OTHER ->
           [threw |-> TRUE, issued |-> <<>>]

\* SwitchMethod with a default case that falls back to axios.get
SwitchMethod_defaultGet(method, requestUrl, body, headers, allowBadRequest) ==
    CASE method \in {"POST", "PUT", "PATCH"} ->
           [threw |-> FALSE,
            issued |-> <<AxiosCall(method, requestUrl, body, headers, allowBadRequest)>>]
      [] method = "DELETE" ->
           [threw |-> FALSE,
            issued |-> <<AxiosCall("DELETE", requestUrl, NoBody, headers, allowBadRequest)>>]
      [] OTHER ->
           [threw |-> FALSE,
            issued |-> <<AxiosCall("GET", requestUrl, NoBody, headers, allowBadRequest)>>]

\* switch (method): the axios calls the invocation issues, and whether it threw
SwitchMethod(method, requestUrl, body, headers, allowBadRequest) ==
    CASE method = "GET" ->
           [threw |-> FALSE,
            issued |-> <<AxiosCall("GET", requestUrl, NoBody, headers, allowBadRequest)>>]
      [] method = "POST" ->
           [threw |-> FALSE,
            issued |-> <<AxiosCall("POST", requestUrl, body, headers, allowBadRequest)>>]
      [] method = "PUT" ->
           [threw |-> FALSE,
            issued |-> <<AxiosCall("PUT", requestUrl, body, headers, allowBadRequest)>>]
      [] method = "DELETE" ->
           [threw |-> FALSE,
            issued |-> <<AxiosCall("DELETE", requestUrl, NoBody, headers, allowBadRequest)>>]
      [] method = "PATCH" ->
           [threw |-> FALSE,
            issued |-> <<AxiosCall("PATCH", requestUrl, body, headers, allowBadRequest)>>]
      [] OTHER ->
           [threw |-> TRUE, issued |-> <<>>]

----------------------------------------------------------------------------
(* The helper, after the await *)

\* ReturnValue with the raw response as the default shape
ReturnValue_defaultFull(returnType, resp) ==
    CASE returnType = "both" -> [response |-> resp, responseData |-> resp.data]
      [] OTHER -> resp

\* ReturnValue with the cases 'both' and 'full' exchanged
ReturnValue_bothFullSwapped(returnType, resp) ==
    CASE returnType = "data" -> resp.data
      [] returnType = "both" -> resp
      [] returnType = "full" -> [response |-> resp, responseData |-> resp.data]
      [] OTHER -> resp.data

\* ReturnValue with 'both' carrying the raw response twice
ReturnValue_bothWithoutPayload(returnType, resp) ==
    CASE returnType = "data" -> resp.data
      [] returnType = "both" -> [response |-> resp, responseData |-> resp]
      [] returnType = "full" -> resp
      [] OTHER -> resp.data

\* switch (returnType)
ReturnValue(returnType, resp) ==
    CASE returnType = "data" -> resp.data
      [] returnType = "both" -> [response |-> resp, responseData |-> resp.data]
      [] returnType = "full" -> resp
      [] OTHER -> resp.data

Returned(v) == [kind |-> "returned", value |-> v]

Raised(e) == [kind |-> "raised", error |-> e]

\* axios settles the promise of a call that got an HTTP response: it resolves
\* with the response when the call's validateStatus accepts the status and
\* rejects otherwise; a rejection propagates out of the helper
Settle(call, resp, returnType) ==
    IF validateStatus(call.validateStatus, resp.status)
    THEN Returned(ReturnValue(returnType, resp))
    ELSE Raised([name |-> "AxiosError", status |-> resp.status])

\* a call that got no response and resolves with nothing when its
\* validateStatus accepts every status
SettleTransport_allowed(call) ==
    IF call.validateStatus
    THEN Returned(Null)
    ELSE Raised([name |-> "AxiosError", code |-> "ERR_NETWORK"])

\* axios settles the promise of a call that got no response: it rejects
\* without consulting validateStatus, and the rejection propagates out of
\* the helper, which has no catch
SettleTransport(call) == Raised([name |-> "AxiosError", code |-> "ERR_NETWORK"])

----------------------------------------------------------------------------
(* State machine *)

NoResponse == [kind |-> "none"]

NoOutcome == [kind |-> "none"]

NoPrev == [present |-> FALSE]

\* no invocation of the helper has been made
HelperIdle ==
    /\ pc = "idle"
    /\ data = EmptyRec
    /\ options = EmptyRec
    /\ calls = <<>>
    /\ response = NoResponse
    /\ outcome = NoOutcome
    /\ prev = NoPrev
    /\ nInvoked = 0
    /\ nIssued = 0

\* env.ts has not been evaluated: the helper's module does not import it
EnvNotEvaluated ==
    /\ preEnv = processEnv
    /\ dotenvFile = NoFile
    /\ config = NotEvaluated
    /\ imported = NotImported

\* urls.ts has not been evaluated: the helper's module does not import it
RegistryNotEvaluated ==
    /\ urlsInput = urlsConfig
    /\ urls = NotEvaluated

\* no test has started
NoTestStarted ==
    /\ tests = [t \in Tests |-> IdleTest]
    /\ pages = <<>>
    /\ heap = 0

Init ==
    /\ processEnv \in Opt("API_BASE_URL", EnvApiBaseUrls)
    /\ HelperIdle
    /\ EnvNotEvaluated
    /\ RegistryNotEvaluated
    /\ NoTestStarted

\* sendCommonApiRequest(d, o) up to the await of the axios call, or to the throw
Start(d, o) ==
    LET requestUrl == RequestUrl(BaseUrlOf(d, processEnv), d.endpoint)
        headers == generateCommonHeaders(AuthTokenOf(d))
        sw == SwitchMethod(d.method, requestUrl, BodyOf(d), headers, AllowBadRequestOf(o))
    IN  /\ data' = d
        /\ options' = o
        /\ calls' = sw.issued
        /\ nInvoked' = IF d.method \in HttpMethods THEN nInvoked + 1 ELSE nInvoked
        /\ nIssued' = nIssued + Len(sw.issued)
        /\ response' = NoResponse
        /\ IF sw.threw
           THEN /\ outcome' = Raised([name |-> "Error", message |-> "Unsupported method: " \o d.method])
                /\ pc' = "done"
           ELSE /\ outcome' = NoOutcome
                /\ pc' = "awaiting"
        /\ UNCHANGED processEnv

\* a caller invokes the helper with a new request
Invoke(d, o) ==
    /\ pc = "idle"
    /\ nInvoked < MaxInvocations
    /\ nIssued < MaxInvocations
    /\ prev' = NoPrev
    /\ Start(d, o)
    /\ UNCHANGED <<envVars, registryVars, fixtureVars>>

\* a caller repeats the request it has just made, with the same descriptor and
\* the same allowBadRequest, and with returnType r (possibly the same one)
Reinvoke(r) ==
    /\ pc = "done"
    /\ nInvoked < MaxInvocations
    /\ nIssued < MaxInvocations
    /\ prev' = [present |-> TRUE, options |-> options, calls |-> calls,
                response |-> response, outcome |-> outcome]
    /\ Start(data, [f \in DOMAIN options \ {"returnType"} |-> options[f]] @@ r)
    /\ UNCHANGED <<envVars, registryVars, fixtureVars>>

\* the server answers the call in flight with an HTTP response
Respond(status, payload) ==
    /\ pc = "awaiting"
    /\ LET resp == [status |-> status, data |-> payload]
       IN  /\ response' = [kind |-> "http", resp |-> resp]
           /\ outcome' = Settle(calls[Len(calls)], resp, ReturnTypeOf(options))
    /\ pc' = "done"
    /\ UNCHANGED <<processEnv, data, options, calls, prev, nInvoked, nIssued, envVars, registryVars, fixtureVars>>

\* the call in flight fails without any response
TransportError ==
    /\ pc = "awaiting"
    /\ response' = [kind |-> "transport"]
    /\ outcome' = SettleTransport(calls[Len(calls)])
    /\ pc' = "done"
    /\ UNCHANGED <<processEnv, data, options, calls, prev, nInvoked, nIssued, envVars, registryVars, fixtureVars>>

\* the caller has consumed the result; the helper keeps nothing of the invocation
Consume ==
    /\ pc = "done"
    /\ pc' = "idle"
    /\ data' = EmptyRec
    /\ options' = EmptyRec
    /\ calls' = <<>>
    /\ response' = NoResponse
    /\ outcome' = NoOutcome
    /\ prev' = NoPrev
    /\ UNCHANGED <<processEnv, nInvoked, nIssued>>

Finish ==
    /\ Consume
    /\ UNCHANGED <<envVars, registryVars, fixtureVars>>

\* single invocations, over every combination of the inputs
Next ==
    \/ \E d \in CommonApiData, o \in CommonApiOptions : Invoke(d, o)
    \/ \E s \in Statuses, p \in Payloads : Respond(s, p)
    \/ TransportError
    \/ Finish

Spec == Init /\ [][Next]_vars

\* sequences of invocations that repeat one request, over the descriptors that
\* spell out every optional property
SeqData == {d \in CommonApiData : Has(d, "baseUrl") /\ Has(d, "body") /\ Has(d, "token") /\ d.token # ""}

SeqNext ==
    \/ \E d \in SeqData, o \in CommonApiOptions : Invoke(d, o)
    \/ \E r \in Opt("returnType", ReturnTypes) : Reinvoke(r)
    \/ \E s \in Statuses, p \in Payloads : Respond(s, p)
    \/ TransportError
    \/ Finish

SeqSpec == Init /\ [][SeqNext]_vars

----------------------------------------------------------------------------
(* The environment configuration: env.ts *)

CharAt(s, i) == SubSeq(s, i, i)

Letters ==
    {"a", "b", "c", "d", "e", "f", "g", "h", "i", "j", "k", "l", "m",
     "n", "o", "p", "q", "r", "s", "t", "u", "v", "w", "x", "y", "z"}

\* z.string().url(): the string parses as a URL on its own, that is, it
\* begins with a scheme and a colon and something other than slashes follows
IsUrl(s) ==
    \E i \in 2..Len(s) :
        /\ CharAt(s, i) = ":"
        /\ \A j \in 1..(i - 1) : CharAt(s, j) \in Letters
        /\ \E k \in (i + 1)..Len(s) : CharAt(s, k) # "/"

\* MinLength accepting the empty string
MinLength1_none(s) == TRUE

\* z.string().min(1)
MinLength1(s) == Len(s) >= 1

UrlFields == {"BASE_URL", "API_BASE_URL"}

CredentialFields == {"MAIN_USER_LOGIN", "MAIN_USER_PASSWORD"}

SchemaFields == UrlFields \cup CredentialFields

\* loadDotenv without override: a variable process.env has keeps its value
loadDotenv_noOverride(penv, file) ==
    IF file.present
    THEN [k \in DOMAIN penv \cup DOMAIN file.vars |->
             IF k \in DOMAIN penv THEN penv[k] ELSE file.vars[k]]
    ELSE penv

\* loadDotenv({ path: envPath, override: true }): every variable of the file
\* is written to process.env; without a file process.env stays as it is
loadDotenv(penv, file) ==
    IF file.present
    THEN [k \in DOMAIN penv \cup DOMAIN file.vars |->
             IF k \in DOMAIN file.vars THEN file.vars[k] ELSE penv[k]]
    ELSE penv

\* the fields of the schema whose check fails on penv: a missing variable,
\* a URL field that is no URL, a credential field shorter than 1
schemaIssues(penv) ==
    { f \in SchemaFields :
        \/ ~Has(penv, f)
        \/ f \in UrlFields /\ ~IsUrl(penv[f])
        \/ f \in CredentialFields /\ ~MinLength1(penv[f]) }

\* schema.parse keeping the keys the schema does not declare
schemaParse_passthrough(penv) ==
    IF schemaIssues(penv) = {}
    THEN [kind |-> "exported", env |-> penv]
    ELSE [kind |-> "thrown", error |-> [name |-> "ZodError", paths |-> schemaIssues(penv)]]

\* schema.parse(process.env): the object of the four declared fields, or a
\* ZodError with one issue for every failing field
schemaParse(penv) ==
    IF schemaIssues(penv) = {}
    THEN [kind |-> "exported", env |-> [f \in SchemaFields |-> penv[f]]]
    ELSE [kind |-> "thrown", error |-> [name |-> "ZodError", paths |-> schemaIssues(penv)]]

\* the evaluation of env.ts, which happens once, when the first module that
\* imports it is loaded and before any code of that module runs
EvaluateEnv ==
    /\ config = NotEvaluated
    /\ pc = "idle" /\ nInvoked = 0
    /\ processEnv' = loadDotenv(processEnv, dotenvFile)
    /\ config' = schemaParse(processEnv')
    /\ UNCHANGED <<helperVars, registryVars, fixtureVars>>
    /\ UNCHANGED <<preEnv, dotenvFile, imported>>

\* a module that imports env from env.ts is evaluated: it gets the binding
\* when env.ts exported it; when env.ts threw, the import throws as well and
\* the importing module never runs
ImportEnv ==
    /\ config.kind = "exported"
    /\ imported = NotImported
    /\ imported' = [kind |-> "env", env |-> config.env]
    /\ UNCHANGED <<processEnv, helperVars, registryVars, fixtureVars>>
    /\ UNCHANGED <<preEnv, dotenvFile, config>>

BaseUrlValues == {"https://x.test", "x.test"}

ApiBaseUrlValues == {"https://x.test/api", "/api"}

LoginValues == {"u@x.test", ""}

PasswordValues == {"p", ""}

ProcessEnvs ==
    { b @@ a @@ l @@ p @@ x :
        b \in Opt("BASE_URL", BaseUrlValues), a \in Opt("API_BASE_URL", ApiBaseUrlValues),
        l \in Opt("MAIN_USER_LOGIN", LoginValues), p \in Opt("MAIN_USER_PASSWORD", PasswordValues),
        x \in Opt("CI", {"1"}) }

DotenvFiles ==
    {NoFile} \cup
    { [present |-> TRUE, vars |-> v] :
        v \in { EmptyRec,
                [API_BASE_URL |-> "https://file.test/api"],
                [BASE_URL |-> "file.test"],
                [MAIN_USER_PASSWORD |-> ""],
                [MAIN_USER_LOGIN |-> "f@x.test", NODE_ENV |-> "test"],
                [BASE_URL |-> "https://file.test", API_BASE_URL |-> "https://file.test/api",
                 MAIN_USER_LOGIN |-> "f@x.test", MAIN_USER_PASSWORD |-> "fp"] } }

EnvInit ==
    /\ processEnv \in ProcessEnvs
    /\ preEnv = processEnv
    /\ dotenvFile \in DotenvFiles
    /\ config = NotEvaluated
    /\ imported = NotImported
    /\ HelperIdle
    /\ RegistryNotEvaluated
    /\ NoTestStarted

EnvNext ==
    \/ EvaluateEnv
    \/ ImportEnv

EnvSpec == EnvInit /\ [][EnvNext]_vars

\* requests over base URLs with and without a trailing slash and endpoints
\* with and without a leading slash, in a process that may evaluate env.ts
\* before its first request
UrlBaseUrls == {"https://x.test/api", "https://x.test/api/"}

UrlEndpoints == {"users/profile/123", "/users/profile/123"}

UrlData ==
    { [method |-> m, endpoint |-> e] @@ b :
        m \in {"GET", "POST"}, e \in UrlEndpoints, b \in Opt("baseUrl", UrlBaseUrls) }

UrlProcessEnvs ==
    { [BASE_URL |-> "https://x.test", MAIN_USER_LOGIN |-> "u@x.test", MAIN_USER_PASSWORD |-> "p"] @@ a :
        a \in Opt("API_BASE_URL", {"", "https://env.test/api", "https://env.test/api/"}) }

UrlInit ==
    /\ processEnv \in UrlProcessEnvs
    /\ preEnv = processEnv
    /\ dotenvFile \in {NoFile, [present |-> TRUE, vars |-> [API_BASE_URL |-> "https://file.test/api"]]}
    /\ config = NotEvaluated
    /\ imported = NotImported
    /\ HelperIdle
    /\ RegistryNotEvaluated
    /\ NoTestStarted

\* when env.ts threw, the modules that import it never run and make no request
UrlNext ==
    \/ EvaluateEnv
    \/ ImportEnv
    \/ config.kind # "thrown" /\ \E d \in UrlData : Invoke(d, EmptyRec)
    \/ \E s \in Statuses, p \in Payloads : Respond(s, p)
    \/ TransportError
    \/ Finish

UrlSpec == UrlInit /\ [][UrlNext]_vars

----------------------------------------------------------------------------
(* The endpoint registry: urls.ts *)

\* urlsSchema: the groups, their leaves and the default of every leaf
urlsSchema ==
    [auth |-> [login |-> "auth/login", logout |-> "auth/logout", refresh |-> "auth/refresh"],
     users |-> [profile |-> "users/profile", create |-> "users", update |-> "users",
                delete |-> "users"],
     template |-> [getData |-> "template/data", postData |-> "template/data",
                   updateData |-> "template/data", deleteData |-> "template/data"]]

\* a group is a z.object without a default of its own: a mapping that lacks
\* the group fails with the issue Required at the group
urlsIssues(input) == { g \in DOMAIN urlsSchema : ~Has(input, g) }

\* urlsSchema.parse(input): every leaf a string, z.string().default(...)
\* giving the default of a leaf the group lacks; keys the schema does not
\* declare are dropped
urlsParse(input) ==
    IF urlsIssues(input) = {}
    THEN [kind |-> "exported",
          urls |-> [g \in DOMAIN urlsSchema |->
                      [l \in DOMAIN urlsSchema[g] |->
                          IF Has(input[g], l) THEN input[g][l] ELSE urlsSchema[g][l]]]]
    ELSE [kind |-> "thrown",
          error |-> [name |-> "ZodError", paths |-> urlsIssues(input)]]

\* the evaluation of urls.ts
EvaluateUrls ==
    /\ urls = NotEvaluated
    /\ urls' = urlsParse(urlsInput)
    /\ UNCHANGED <<processEnv, helperVars, envVars, urlsInput, fixtureVars>>

\* mappings with groups and leaves left out, and leaves with paths of their own
SubMaps(group, leaves) ==
    { [l \in ls |-> "v2/" \o urlsSchema[group][l]] : ls \in SUBSET leaves }

UrlsInputs ==
    {urlsConfig} \cup
    { a @@ u @@ t :
        a \in Opt("auth", SubMaps("auth", {"login", "logout", "refresh"})),
        u \in Opt("users", SubMaps("users", {"profile", "create"}) \cup {urlsConfig.users}),
        t \in Opt("template", SubMaps("template", {"getData"}) \cup {urlsConfig.template}) }

RegistryInit ==
    /\ urlsInput \in UrlsInputs
    /\ urls = NotEvaluated
    /\ processEnv = EmptyRec
    /\ EnvNotEvaluated
    /\ HelperIdle
    /\ NoTestStarted

RegistryNext == EvaluateUrls

RegistrySpec == RegistryInit /\ [][RegistryNext]_vars

----------------------------------------------------------------------------
(* The fixtures and the API client (fixture.ts, base.api-client.ts,        *)
(* template.api-client.ts)                                                 *)

\* the fixtures that fixture.ts gives a construction function
DefinedFixtures ==
    {"loggedUserPage", "basePageManager", "templatePageManager",
     "loggedUserTemplatePageManager", "templateAPIClient",
     "authenticatedTemplateAPIClient"}

\* the fixtures of the runner that the construction functions ask for
BuiltInFixtures == {"browser"}

\* the destructured first parameter of every construction function
Dependencies ==
    [f \in DefinedFixtures |->
        CASE f = "loggedUserPage" -> {"browser"}
          [] f \in {"basePageManager", "templatePageManager"} -> {"basicPage"}
          [] f = "loggedUserTemplatePageManager" -> {"loggedUserPage"}
          [] OTHER -> {}]

\* a fixture the runner can set up: it and everything it asks for, directly
\* or through another fixture, has a construction function
RECURSIVE Resolvable(_)
Resolvable(f) ==
    \/ f \in BuiltInFixtures
    \/ /\ f \in DefinedFixtures
       /\ \A g \in Dependencies[f] : Resolvable(g)

\* the fixtures whose setup runs the construction function of loggedUserPage
PageFixtures == {"loggedUserPage", "loggedUserTemplatePageManager"}

\* the fixtures that hand the test a TemplateAPIClient
ClientFixtures == {"templateAPIClient", "authenticatedTemplateAPIClient"}

\* loggedUserPage with the click awaited after the network-idle wait
PendingOperation_clickLast ==
    <<"newPage", "goto", "fillEmail", "fillPassword", "waitForLoadState", "click">>

\* the steps of loggedUserPage before use(page): the awaited operation that
\* is pending at each value of a test's step
PendingOperation ==
    <<"newPage", "goto", "fillEmail", "fillPassword", "click", "waitForLoadState">>

\* a page as browser.newPage() returns it
NewPageRecord == [open |-> TRUE, closes |-> 0, log |-> <<>>]

\* const page = await browser.newPage()
newPage(ps) == [pages |-> Append(ps, NewPageRecord), page |-> Len(ps) + 1]

\* an operation on a page, kept in the page's log
Logged(ps, id, op, arg) ==
    [ps EXCEPT ![id].log = Append(@, [op |-> op, arg |-> arg])]

\* the statements of loggedUserPage after use(page), with the close left out
afterUse_noClose(ps, id) == ps

\* await page.close()
afterUse(ps, id) == [ps EXCEPT ![id].open = FALSE, ![id].closes = @ + 1]

\* a constructor call that hands out one shared instance
New_shared(h) == 1

\* new TemplatePageManager(...), new TemplateAPIClient(): an object distinct
\* from every object constructed before
New(h) == h + 1

\* a TemplatePageManager whose LoginPage is constructed over another page
TemplatePageManager_otherLoginPage(id, page) ==
    [kind |-> "manager", id |-> id, page |-> page, loginPage |-> [page |-> page + 1]]

\* class TemplatePageManager extends BasePageManager: the manager and its
\* page object hold the page they were constructed over
TemplatePageManager(id, page) ==
    [kind |-> "manager", id |-> id, page |-> page, loginPage |-> [page |-> page]]

\* class BaseAPIClient: this.urls is the exported registry itself, not a copy
TemplateAPIClient(id) == [kind |-> "client", id |-> id]

\* getBaseUrl()
getBaseUrl == imported.env.API_BASE_URL

\* getData with a method that also rewrites the registry entry it read
getData_rewritesRegistry(registry, token) ==
    [request |-> [baseUrl |-> getBaseUrl, method |-> "GET",
                  endpoint |-> registry.template.getData] @@ token,
     registry |-> [registry EXCEPT !.template.getData = @ \o "/"]]

\* getData of a client that falls back on the token of an earlier login
getData_sessionToken(registry, token) ==
    [request |-> [baseUrl |-> getBaseUrl, method |-> "GET",
                  endpoint |-> registry.template.getData]
                    @@ (IF token = EmptyRec /\ \E t \in Tests : tests[t].authResponse # NoValue
                        THEN "token" :> "session"
                        ELSE token),
     registry |-> registry]

\* TemplateAPIClient.getData(token?): the request descriptor it passes to
\* the helper and the registry it leaves behind
getData(registry, token) ==
    [request |-> [baseUrl |-> getBaseUrl, method |-> "GET",
                  endpoint |-> registry.template.getData] @@ token,
     registry |-> registry]

\* postData sent with the method PUT
postData_asPut(registry, body, token) ==
    [request |-> [baseUrl |-> getBaseUrl, method |-> "PUT",
                  endpoint |-> registry.template.postData, body |-> body] @@ token,
     registry |-> registry]

\* TemplateAPIClient.postData(data, token?)
postData(registry, body, token) ==
    [request |-> [baseUrl |-> getBaseUrl, method |-> "POST",
                  endpoint |-> registry.template.postData, body |-> body] @@ token,
     registry |-> registry]

\* TemplateAPIClient.login(credentials)
login(registry, credentials) ==
    [request |-> [baseUrl |-> getBaseUrl, method |-> "POST",
                  endpoint |-> registry.auth.login, body |-> credentials],
     registry |-> registry]

\* the login of the authenticated fixture with the two credentials swapped
EnvCredentials_swapped ==
    [email |-> imported.env.MAIN_USER_PASSWORD, password |-> imported.env.MAIN_USER_LOGIN]

\* the credentials the authenticated fixture logs in with
EnvCredentials ==
    [email |-> imported.env.MAIN_USER_LOGIN, password |-> imported.env.MAIN_USER_PASSWORD]

\* the client method calls a test body makes
ClientCalls ==
    {[method |-> "getData", token |-> t] : t \in Opt("token", Tokens)}
        \cup {[method |-> "postData", body |-> b, token |-> EmptyRec] : b \in Bodies}
        \cup {[method |-> "login", credentials |-> [email |-> "a@x.test", password |-> "pw"]]}

\* the effect of one client method call
ClientCall(registry, c) ==
    CASE c.method = "getData" -> getData(registry, c.token)
      [] c.method = "postData" -> postData(registry, c.body, c.token)
      [] c.method = "login" -> login(registry, c.credentials)

\* a test asks for a fixture; the runner refuses a fixture it cannot set up
\* and the test fails before any construction function runs
RequestFixture(t, f) ==
    /\ tests[t].phase = "idle"
    /\ tests' = [tests EXCEPT ![t] =
                    IF Resolvable(f)
                    THEN [@ EXCEPT !.fixture = f, !.phase = "setup"]
                    ELSE [@ EXCEPT !.fixture = f, !.phase = "ended", !.status = "failed",
                                   !.error = [name |-> "Error", operation |-> "resolve"]]]
    /\ UNCHANGED <<processEnv, helperVars, envVars, registryVars, pages, heap>>

\* use(value): the fixture is set up and the test body runs with the value
Use(test, value) == [test EXCEPT !.given = value, !.phase = "body"]

\* the effect of a pending operation of loggedUserPage on the pages
Perform(ps, id, op) ==
    CASE op = "newPage" -> newPage(ps).pages
      [] op = "goto" -> Logged(ps, id, "goto", imported.env.BASE_URL)
      [] op = "fillEmail" ->
            Logged(ps, id, "fill",
                   <<"[data-testid=\"qa-input-email\"]", imported.env.MAIN_USER_LOGIN>>)
      [] op = "fillPassword" ->
            Logged(ps, id, "fill",
                   <<"[data-testid=\"qa-input-password\"]", imported.env.MAIN_USER_PASSWORD>>)
      [] op = "click" -> Logged(ps, id, "click", "[data-testid=\"qa-btn-login\"]")
      [] op = "waitForLoadState" -> Logged(ps, id, "waitForLoadState", "networkidle")

\* the construction function of loggedUserPage has reached use(page)
PageReady_atOnce(test) == TRUE

PageReady(test) == test.step = Len(PendingOperation)

\* loggedUserPage: the pending awaited operation completes; after the last
\* one the function calls use(page), which starts the body of a test that
\* asked for loggedUserPage itself
SetupPage(t) ==
    LET test == tests[t]
        op == PendingOperation[test.step + 1]
        advanced == [test EXCEPT !.step = @ + 1,
                                 !.page = IF op = "newPage" THEN newPage(pages).page ELSE @]
    IN  /\ test.phase = "setup"
        /\ test.fixture \in PageFixtures
        /\ test.step < Len(PendingOperation)
        /\ pages' = Perform(pages, test.page, op)
        /\ tests' = [tests EXCEPT ![t] =
                        IF PageReady(advanced) /\ test.fixture = "loggedUserPage"
                        THEN Use(advanced, [kind |-> "page", page |-> advanced.page])
                        ELSE advanced]
        /\ UNCHANGED <<processEnv, helperVars, envVars, registryVars, heap>>

\* loggedUserPage: the pending awaited operation rejects, the construction
\* function throws before use(page) and the test fails without a body
SetupFails(t) ==
    /\ tests[t].phase = "setup"
    /\ tests[t].fixture \in PageFixtures
    /\ tests[t].step < Len(PendingOperation)
    /\ tests' = [tests EXCEPT ![t].phase = "ended", ![t].status = "failed",
                              ![t].error = [name |-> "Error",
                                            operation |-> PendingOperation[tests[t].step + 1]]]
    /\ UNCHANGED <<processEnv, helperVars, envVars, registryVars, pages, heap>>

\* loggedUserTemplatePageManager: use(new TemplatePageManager(loggedUserPage))
SetupManager(t) ==
    /\ tests[t].phase = "setup"
    /\ tests[t].fixture = "loggedUserTemplatePageManager"
    /\ PageReady(tests[t])
    /\ heap' = New(heap)
    /\ tests' = [tests EXCEPT ![t] = Use(@, TemplatePageManager(heap', tests[t].page))]
    /\ UNCHANGED <<processEnv, helperVars, envVars, registryVars, pages>>

\* templateAPIClient, authenticatedTemplateAPIClient:
\* const apiClient = new TemplateAPIClient(), and use(apiClient) when the
\* fixture has nothing else to do
SetupClient(t) ==
    /\ tests[t].phase = "setup"
    /\ tests[t].fixture \in ClientFixtures
    /\ tests[t].step = 0
    /\ heap' = New(heap)
    /\ tests' = [tests EXCEPT ![t] =
                    IF tests[t].fixture = "templateAPIClient"
                    THEN Use([@ EXCEPT !.client = heap', !.step = 1], TemplateAPIClient(heap'))
                    ELSE [@ EXCEPT !.client = heap', !.step = 1]]
    /\ UNCHANGED <<processEnv, helperVars, envVars, registryVars, pages>>

\* a client method calls the helper with its descriptor and default options
SendRequest(r) ==
    /\ pc = "idle"
    /\ nInvoked < MaxInvocations
    /\ nIssued < MaxInvocations
    /\ prev' = NoPrev
    /\ Start(r.request, EmptyRec)
    /\ urls' = [urls EXCEPT !.urls = r.registry]
    /\ UNCHANGED <<envVars, urlsInput>>

\* authenticatedTemplateAPIClient: await apiClient.login({email, password})
SetupLogin(t) ==
    /\ tests[t].phase = "setup"
    /\ tests[t].fixture = "authenticatedTemplateAPIClient"
    /\ tests[t].step = 1
    /\ ~tests[t].calling
    /\ SendRequest(login(urls.urls, EnvCredentials))
    /\ tests' = [tests EXCEPT ![t].calling = TRUE, ![t].loginCalls = @ + 1,
                              ![t].call = [method |-> "login", credentials |-> EnvCredentials],
                              ![t].methodCalls = @ + 1]
    /\ UNCHANGED <<pages, heap>>

\* a test body calls a method of the client it was given
BodyCall(t, c) ==
    /\ tests[t].phase = "body"
    /\ tests[t].given.kind = "client"
    /\ ~tests[t].calling
    /\ SendRequest(ClientCall(urls.urls, c))
    /\ tests' = [tests EXCEPT ![t].calling = TRUE, ![t].call = c,
                              ![t].methodCalls = @ + 1]
    /\ UNCHANGED <<pages, heap>>

\* the awaited client method settles: in the fixture a rejected login ends
\* the setup before use(apiClient); in the body a rejection fails the test
Return(t) ==
    /\ tests[t].calling
    /\ Consume
    /\ tests' = [tests EXCEPT ![t] =
                    LET settled == [@ EXCEPT !.calling = FALSE, !.call = NoValue] IN
                    CASE @.phase = "setup" /\ outcome.kind = "returned" ->
                            Use([settled EXCEPT !.step = 2, !.authResponse = outcome],
                                TemplateAPIClient(@.client))
                      [] @.phase = "setup" /\ outcome.kind = "raised" ->
                            [settled EXCEPT !.phase = "ended", !.status = "failed",
                                            !.error = outcome.error]
                      [] @.phase = "body" /\ outcome.kind = "returned" -> settled
                      [] @.phase = "body" /\ outcome.kind = "raised" ->
                            [settled EXCEPT !.phase = "teardown", !.status = "failed",
                                            !.error = outcome.error]]
    /\ UNCHANGED <<envVars, registryVars, pages, heap>>

\* the test body ends, passing or failing
BodyEnds(t, status) ==
    /\ tests[t].phase = "body"
    /\ ~tests[t].calling
    /\ tests' = [tests EXCEPT ![t].phase = "teardown", ![t].status = status,
                              ![t].error = IF status = "failed"
                                           THEN [name |-> "Error", operation |-> "body"]
                                           ELSE NoValue]
    /\ UNCHANGED <<processEnv, helperVars, envVars, registryVars, pages, heap>>

\* the runner resumes the construction functions after their use(...):
\* loggedUserPage closes its page, the other fixtures have nothing left
Teardown(t) ==
    /\ tests[t].phase = "teardown"
    /\ pages' = IF tests[t].fixture \in PageFixtures
                THEN afterUse(pages, tests[t].page)
                ELSE pages
    /\ tests' = [tests EXCEPT ![t].phase = "ended"]
    /\ UNCHANGED <<processEnv, helperVars, envVars, registryVars, heap>>

\* the environment of the run
RunEnv ==
    [BASE_URL |-> "https://x.test", API_BASE_URL |-> "https://x.test/api",
     MAIN_USER_LOGIN |-> "user@x.test", MAIN_USER_PASSWORD |-> "secret"]

\* fixture.ts is loaded: env.ts and urls.ts have been evaluated and imported
FixInit ==
    /\ processEnv = RunEnv
    /\ preEnv = RunEnv
    /\ dotenvFile = NoFile
    /\ config = schemaParse(RunEnv)
    /\ imported = [kind |-> "env", env |-> schemaParse(RunEnv).env]
    /\ urlsInput = urlsConfig
    /\ urls = urlsParse(urlsConfig)
    /\ HelperIdle
    /\ NoTestStarted

FixNext ==
    \/ \E t \in Tests, f \in DefinedFixtures : RequestFixture(t, f)
    \/ \E t \in Tests : SetupPage(t)
    \/ \E t \in Tests : SetupFails(t)
    \/ \E t \in Tests : SetupManager(t)
    \/ \E t \in Tests : SetupClient(t)
    \/ \E t \in Tests : SetupLogin(t)
    \/ \E t \in Tests, c \in ClientCalls : BodyCall(t, c)
    \/ \E st \in Statuses, p \in Payloads : Respond(st, p)
    \/ TransportError
    \/ \E t \in Tests : Return(t)
    \/ \E t \in Tests, status \in {"passed", "failed"} : BodyEnds(t, status)
    \/ \E t \in Tests : Teardown(t)

FixSpec == FixInit /\ [][FixNext]_vars

\* the runner and the awaited operations do not stall: a run goes on while
\* any step of any test can be taken
FixLiveSpec == FixInit /\ [][FixNext]_vars /\ WF_vars(FixNext)

----------------------------------------------------------------------------
(* Properties of single invocations (specification Spec) *)

\* the current invocation has ended and the server had answered its call
\* with an HTTP response
Answered == pc = "done" /\ response.kind = "http"

Recognised == data.method \in HttpMethods

AllowFalseOrOmitted == ~Has(options, "allowBadRequest") \/ options.allowBadRequest = FALSE

AllowTrue == Has(options, "allowBadRequest") /\ options.allowBadRequest = TRUE

\* the value the claims expect for the returnType of the current invocation
ExpectedShape(resp) ==
    /\ (~Has(options, "returnType") \/ options.returnType = "data")
          => outcome.value = resp.data
    /\ (Has(options, "returnType") /\ options.returnType = "both")
          => outcome.value = [response |-> resp, responseData |-> resp.data]
    /\ (Has(options, "returnType") /\ options.returnType = "full")
          => outcome.value = resp

\* C1: for each of the five methods and each status >= 400, an invocation
\* with allowBadRequest false or omitted raises and returns no value,
\* whatever the returnType.
C1_BadStatusRaises ==
    (Answered /\ Recognised /\ response.resp.status >= 400 /\ AllowFalseOrOmitted)
        => (outcome.kind = "raised" /\ ~Has(outcome, "value"))

C1_Witness ==
    /\ Answered
    /\ data.method = "PATCH"
    /\ response.resp.status = 400
    /\ options = [returnType |-> "full"]
    /\ outcome.kind = "raised"

\* C2: for each of the five methods and each status >= 400, an invocation
\* with allowBadRequest true does not raise: it returns the response in the
\* shape selected by returnType.
C2_AllowedBadStatusReturns ==
    (Answered /\ Recognised /\ response.resp.status >= 400 /\ AllowTrue)
        => (outcome.kind = "returned" /\ ExpectedShape(response.resp))

C2_Witness ==
    /\ Answered
    /\ data.method = "POST"
    /\ response.resp.status = 400
    /\ options = [allowBadRequest |-> TRUE, returnType |-> "both"]
    /\ outcome.kind = "returned"
    /\ outcome.value.response.status = 400

\* C3, as stated: an invocation with only allowBadRequest true against a
\* server answering 401 returns a value that carries the status 401.
C3_DefaultValueCarriesStatus ==
    (Answered /\ Recognised /\ response.resp.status = 401
              /\ options = [allowBadRequest |-> TRUE])
        => (/\ outcome.kind = "returned"
            /\ Has(outcome.value, "status")
            /\ outcome.value.status = 401)

\* C3, amended: such an invocation returns without raising, and the value is
\* the response payload only; the status 401 is in the returned value when
\* returnType is 'full' (value.status) or 'both' (value.response.status).
C3_DefaultValueIsPayload ==
    (Answered /\ Recognised /\ response.resp.status = 401 /\ AllowTrue)
        => /\ outcome.kind = "returned"
           /\ (~Has(options, "returnType")) => outcome.value = response.resp.data
           /\ (Has(options, "returnType") /\ options.returnType = "full")
                 => outcome.value.status = 401
           /\ (Has(options, "returnType") /\ options.returnType = "both")
                 => outcome.value.response.status = 401

C3_Witness ==
    /\ Answered
    /\ data.method = "GET"
    /\ response.resp = [status |-> 401, data |-> [error |-> "denied"]]
    /\ options = [allowBadRequest |-> TRUE]
    /\ outcome = Returned([error |-> "denied"])

\* C4: for each status below 400 and each recognised method the invocation
\* returns without raising, with allowBadRequest true, false or omitted.
C4_GoodStatusReturns ==
    (Answered /\ Recognised /\ response.resp.status < 400)
        => outcome.kind = "returned"

C4_Witness ==
    /\ Answered
    /\ data.method = "DELETE"
    /\ response.resp.status = 399
    /\ options = [allowBadRequest |-> FALSE]
    /\ outcome.kind = "returned"

\* C5: the returned value is determined by returnType: 'data' or an omitted
\* returnType gives the payload only, 'both' the pair of raw response and
\* payload, 'full' the raw response only.
C5_ReturnShape ==
    (pc = "done" /\ outcome.kind = "returned")
        => (response.kind = "http" /\ ExpectedShape(response.resp))

C5_Witness ==
    /\ Answered
    /\ options = [returnType |-> "full"]
    /\ response.resp = [status |-> 200, data |-> [id |-> "p1"]]
    /\ outcome = Returned([status |-> 200, data |-> [id |-> "p1"]])

\* C8: an invocation whose method is none of GET, POST, PUT, DELETE, PATCH
\* raises an error and issues no HTTP call, also when allowBadRequest is true.
C8_UnsupportedMethodRaises ==
    (pc # "idle" /\ ~Recognised)
        => /\ pc = "done"
           /\ outcome.kind = "raised"
           /\ outcome.error.name = "Error"
           /\ calls = <<>>
           /\ response = NoResponse

C8_Witness ==
    /\ pc = "done"
    /\ data.method = "HEAD"
    /\ options = [allowBadRequest |-> TRUE]
    /\ outcome.kind = "raised"
    /\ calls = <<>>

\* C9: every HTTP call carries accept: */* and Content-Type:
\* application/json, and, when the caller supplied a non-empty token t,
\* Authorization: Bearer t.
C9_CommonHeaders ==
    \A i \in 1..Len(calls) :
        /\ Has(calls[i].headers, "accept")
        /\ calls[i].headers["accept"] = "*/*"
        /\ Has(calls[i].headers, "Content-Type")
        /\ calls[i].headers["Content-Type"] = "application/json"
        /\ (Has(data, "token") /\ data.token # "")
              => /\ Has(calls[i].headers, "Authorization")
                 /\ calls[i].headers["Authorization"] = "Bearer " \o data.token

C9_Witness ==
    /\ pc = "awaiting"
    /\ data.method = "PUT"
    /\ Has(data, "token")
    /\ data.token = "abc"
    /\ Len(calls) = 1
    /\ calls[1].headers["Authorization"] = "Bearer abc"
    /\ calls[1].headers["Content-Type"] = "application/json"

\* C10: when the caller supplies no token, the request is sent with the
\* placeholder header Authorization: Bearer token.
C10_PlaceholderToken ==
    \A i \in 1..Len(calls) :
        (~Has(data, "token") \/ data.token = "")
            => /\ Has(calls[i].headers, "Authorization")
               /\ calls[i].headers["Authorization"] = "Bearer token"

C10_Witness ==
    /\ pc = "awaiting"
    /\ data.method = "GET"
    /\ ~Has(data, "token")
    /\ Len(calls) = 1
    /\ calls[1].headers["Authorization"] = "Bearer token"

\* C11: descriptor.body is ignored for GET and DELETE: the HTTP call of
\* these two methods carries no body whatever body the descriptor has, while
\* for POST, PUT and PATCH the supplied body (null when omitted) is sent.
C11_BodyByMethod ==
    \A i \in 1..Len(calls) :
        /\ data.method \in {"GET", "DELETE"} => calls[i].body = NoBody
        /\ data.method \in {"POST", "PUT", "PATCH"}
              => calls[i].body = (IF Has(data, "body") THEN data.body ELSE Null)

C11_Witness ==
    /\ pc = "awaiting"
    /\ data.method = "DELETE"
    /\ Has(data, "body")
    /\ Len(calls) = 1
    /\ calls[1].verb = "DELETE"
    /\ calls[1].body = NoBody

----------------------------------------------------------------------------
(* Properties of the request URL (specification UrlSpec) *)

\* the number of consecutive slashes of url around position j
SlashesAt(url, j) ==
    Cardinality({ k \in 1..Len(url) :
                    \A i \in (IF k < j THEN k ELSE j)..(IF k < j THEN j ELSE k) :
                        CharAt(url, i) = "/" })

EndsWithSlash(str) == Len(str) > 0 /\ CharAt(str, Len(str)) = "/"

StartsWithSlash(str) == Len(str) > 0 /\ CharAt(str, 1) = "/"

\* C12, as stated: for every base URL and every endpoint path the request
\* URL has a single slash where the base URL and the endpoint are joined.
C12_SingleSlashAlways ==
    \A i \in 1..Len(calls) :
        SlashesAt(calls[i].url, Len(BaseUrlOf(data, processEnv)) + 1) = 1

\* C12, amended: the request URL is the base URL, one slash and the
\* endpoint; the join has a single slash for every base URL that does not
\* end with a slash and every endpoint that does not begin with one.
C12_SingleSlashForPlainParts ==
    \A i \in 1..Len(calls) :
        LET base == BaseUrlOf(data, processEnv)
            url == calls[i].url
        IN  /\ Len(url) = Len(base) + 1 + Len(data.endpoint)
            /\ SubSeq(url, 1, Len(base)) = base
            /\ CharAt(url, Len(base) + 1) = "/"
            /\ SubSeq(url, Len(base) + 2, Len(url)) = data.endpoint
            /\ (~EndsWithSlash(base) /\ ~StartsWithSlash(data.endpoint))
                  => SlashesAt(url, Len(base) + 1) = 1

C12_Witness ==
    /\ pc = "awaiting"
    /\ Has(data, "baseUrl")
    /\ data.baseUrl = "https://x.test/api"
    /\ data.endpoint = "users/profile/123"
    /\ Len(calls) = 1
    /\ calls[1].url = "https://x.test/api/users/profile/123"
    /\ SlashesAt(calls[1].url, 19) = 1

----------------------------------------------------------------------------
(* Properties of sequences of invocations (specification SeqSpec) *)

\* the returnType in effect for the options o: 'data' when omitted
Selected(o) == IF Has(o, "returnType") THEN o.returnType ELSE "data"

\* C6: for the same request and the same server response, varying only
\* returnType gives consistent values: the value for 'data' equals the
\* payload component of the value for 'both', the value for 'full' equals
\* its raw-response component; returnType influences neither the HTTP call
\* made nor whether the call raises.
C6_ReturnTypeConsistent ==
    (prev.present /\ pc # "idle")
        => /\ calls = prev.calls
           /\ (pc = "done" /\ response = prev.response)
                 => /\ outcome.kind = prev.outcome.kind
                    /\ outcome.kind = "returned"
                          => LET a == Selected(prev.options)
                                 b == Selected(options)
                                 va == prev.outcome.value
                                 vb == outcome.value
                             IN  /\ (a = "data" /\ b = "both") => va = vb.responseData
                                 /\ (a = "both" /\ b = "data") => va.responseData = vb
                                 /\ (a = "full" /\ b = "both") => va = vb.response
                                 /\ (a = "both" /\ b = "full") => va.response = vb
                                 /\ (a = b) => va = vb

C6_Witness ==
    /\ prev.present
    /\ pc = "done"
    /\ response = prev.response
    /\ response.kind = "http"
    /\ prev.options = [returnType |-> "data"]
    /\ options = [returnType |-> "both"]
    /\ outcome.kind = "returned"
    /\ outcome.value.responseData = prev.outcome.value
    /\ outcome.value.response = response.resp

\* C7: each invocation with a recognised method issues exactly one HTTP call
\* whose verb equals descriptor.method: a call that failed is not re-issued,
\* and a repeated identical request gets a new HTTP call of its own.
C7_OneCallPerInvocation ==
    /\ nIssued = nInvoked
    /\ (pc # "idle" /\ Recognised)
          => /\ Len(calls) = 1
             /\ calls[1].verb = data.method
    /\ (pc # "idle" /\ prev.present /\ Recognised) => Len(prev.calls) = 1
    /\ (pc = "done" /\ outcome.kind = "returned") => response.kind = "http"

C7_Witness ==
    /\ pc = "done"
    /\ prev.present
    /\ options = prev.options
    /\ data.method = "PUT"
    /\ prev.outcome.kind = "raised"
    /\ outcome.kind = "returned"
    /\ calls = prev.calls
    /\ nInvoked = 2
    /\ nIssued = 2

----------------------------------------------------------------------------
(* Properties of the environment configuration (specification EnvSpec) *)

\* the absolute URLs among the values the environments are drawn from
AbsoluteUrls ==
    {"https://x.test", "https://x.test/api", "https://file.test", "https://file.test/api"}

\* the required variables that are missing from e or have the wrong shape
Offending(e) ==
    { f \in {"BASE_URL", "API_BASE_URL", "MAIN_USER_LOGIN", "MAIN_USER_PASSWORD"} :
        \/ ~Has(e, f)
        \/ f \in {"BASE_URL", "API_BASE_URL"} /\ e[f] \notin AbsoluteUrls
        \/ f \in {"MAIN_USER_LOGIN", "MAIN_USER_PASSWORD"} /\ e[f] = "" }

Evaluated == config # NotEvaluated

\* C14: for every environment whose two URL variables are absolute URLs and
\* whose two credential variables are non-empty, the loader produces an
\* object of exactly these four fields with the values of the environment,
\* and no other variable of the environment is in it.
C14_ValidEnvExported ==
    (Evaluated /\ Offending(processEnv) = {})
        => /\ config.kind = "exported"
           /\ DOMAIN config.env = {"BASE_URL", "API_BASE_URL", "MAIN_USER_LOGIN", "MAIN_USER_PASSWORD"}
           /\ \A f \in DOMAIN config.env : config.env[f] = processEnv[f]

C14_Witness ==
    /\ config.kind = "exported"
    /\ dotenvFile = NoFile
    /\ processEnv = [BASE_URL |-> "https://x.test", API_BASE_URL |-> "https://x.test/api",
                     MAIN_USER_LOGIN |-> "u@x.test", MAIN_USER_PASSWORD |-> "p", CI |-> "1"]
    /\ config.env = [BASE_URL |-> "https://x.test", API_BASE_URL |-> "https://x.test/api",
                     MAIN_USER_LOGIN |-> "u@x.test", MAIN_USER_PASSWORD |-> "p"]

\* C15: for every environment in which a required variable is missing, a URL
\* variable is no absolute URL or a credential variable is empty, loading
\* aborts with an error that names each offending field, and no
\* configuration object reaches a consumer.
C15_InvalidEnvAborts ==
    (Evaluated /\ Offending(processEnv) # {})
        => /\ config.kind = "thrown"
           /\ ~Has(config, "env")
           /\ config.error.paths = Offending(processEnv)
           /\ imported = NotImported

C15_Witness ==
    /\ config.kind = "thrown"
    /\ processEnv = [BASE_URL |-> "https://x.test", API_BASE_URL |-> "https://x.test/api",
                     MAIN_USER_LOGIN |-> "u@x.test"]
    /\ config.error.paths = {"MAIN_USER_PASSWORD"}
    /\ imported = NotImported

\* C16: a variable defined both in the process environment and in the .env
\* file is validated and exposed with the value of the file; a variable
\* defined only in the process environment keeps its process value.
C16_FileOverrides ==
    Evaluated
        => /\ \A v \in DOMAIN preEnv :
                /\ Has(processEnv, v)
                /\ processEnv[v] = (IF dotenvFile.present /\ Has(dotenvFile.vars, v)
                                    THEN dotenvFile.vars[v] ELSE preEnv[v])
           /\ config.kind = "exported"
                 => \A f \in DOMAIN config.env \cap DOMAIN preEnv :
                        config.env[f] = (IF dotenvFile.present /\ Has(dotenvFile.vars, f)
                                         THEN dotenvFile.vars[f] ELSE preEnv[f])

C16_Witness ==
    /\ config.kind = "exported"
    /\ dotenvFile = [present |-> TRUE, vars |-> [API_BASE_URL |-> "https://file.test/api"]]
    /\ preEnv = [BASE_URL |-> "https://x.test", API_BASE_URL |-> "https://x.test/api",
                 MAIN_USER_LOGIN |-> "u@x.test", MAIN_USER_PASSWORD |-> "p"]
    /\ config.env.API_BASE_URL = "https://file.test/api"
    /\ config.env.BASE_URL = "https://x.test"

----------------------------------------------------------------------------
(* Properties of the endpoint registry (specification RegistrySpec) *)

\* C17: for every input mapping in which leaves or whole groups (auth,
\* users, template) are left out, parsing succeeds, every entry left out has
\* its documented default path, and the result has every declared key.
C17_OmittedEntriesDefaulted ==
    urls # NotEvaluated
        => /\ urls.kind = "exported"
           /\ DOMAIN urls.urls = {"auth", "users", "template"}
           /\ \A g \in DOMAIN urls.urls :
                /\ DOMAIN urls.urls[g] = DOMAIN urlsConfig[g]
                /\ \A l \in DOMAIN urls.urls[g] :
                      urls.urls[g][l] = (IF Has(urlsInput, g) /\ Has(urlsInput[g], l)
                                         THEN urlsInput[g][l] ELSE urlsConfig[g][l])

----------------------------------------------------------------------------
(* Properties of the fixtures and the API client (specification FixSpec) *)

\* C18: once env.ts and urls.ts have exported their values, no step of a
\* run (setting up a fixture, constructing a client or a page manager, a
\* client method call, the helper's own steps) changes any entry of the
\* endpoint registry or of the environment configuration.
C18_ConfigurationReadOnly ==
    [][/\ urls.kind = "exported" => urls' = urls
       /\ config.kind = "exported" => config' = config
       /\ imported.kind = "env" => imported' = imported]_vars

\* fixtures were set up, clients constructed and client methods called, and
\* the registry and the configuration are what their modules exported
C18_Witness ==
    /\ pages # <<>>
    /\ heap >= 1
    /\ nIssued >= 2
    /\ \E t \in Tests : tests[t].phase = "ended" /\ tests[t].given.kind = "client"
    /\ urls = urlsParse(urlsConfig)
    /\ config = schemaParse(RunEnv)
    /\ imported.env = config.env

\* the construction function of loggedUserPage has called use(page) for the
\* test, directly or on behalf of loggedUserTemplatePageManager
Constructed(test) ==
    test.fixture \in PageFixtures /\ test.step = Len(PendingOperation)

\* C19: for every test for which loggedUserPage was constructed, page.close()
\* has not run while the test is still being set up, running or waiting for
\* its teardown, and has run exactly once, leaving the page closed, when the
\* test has ended, whether it passed or failed.
C19_TeardownOncePerConstruction ==
    \A t \in Tests :
        Constructed(tests[t])
            => LET page == pages[tests[t].page] IN
               IF tests[t].phase = "ended"
               THEN page.closes = 1 /\ ~page.open
               ELSE page.closes = 0 /\ page.open

\* a failed test that was given its logged-in page has ended and the page
\* was closed once
C19_Witness ==
    \E t \in Tests :
        /\ tests[t].fixture = "loggedUserPage"
        /\ tests[t].given.kind = "page"
        /\ tests[t].phase = "ended"
        /\ tests[t].status = "failed"
        /\ pages[tests[t].page].closes = 1

\* the page, page manager, page object and client instances a test holds
Instances(test) ==
    (IF test.page # 0 THEN {<<"page", test.page>>} ELSE {})
        \cup (IF test.client # 0 THEN {<<"client", test.client>>} ELSE {})
        \cup (CASE test.given.kind = "page" -> {<<"page", test.given.page>>}
                [] test.given.kind = "manager" ->
                      {<<"manager", test.given.id>>, <<"page", test.given.page>>,
                       <<"page", test.given.loginPage.page>>}
                [] test.given.kind = "client" -> {<<"client", test.given.id>>}
                [] OTHER -> {})

\* C20: whatever the interleaving of the tests, no page, page manager or
\* API client instance is held by two tests.
C20_NoSharedInstances ==
    \A t1, t2 \in Tests :
        t1 # t2 => Instances(tests[t1]) \cap Instances(tests[t2]) = {}

\* two tests run their bodies at the same time, each with a page manager or
\* each with a client
C20_Witness ==
    \E t1, t2 \in Tests :
        /\ t1 # t2
        /\ tests[t1].phase = "body" /\ tests[t2].phase = "body"
        /\ tests[t1].given.kind \in {"manager", "client"}
        /\ tests[t1].given.kind = tests[t2].given.kind

\* the operations of a completed login sequence on a new page, in order
LoginSequence ==
    << [op |-> "goto", arg |-> RunEnv.BASE_URL],
       [op |-> "fill", arg |-> <<"[data-testid=\"qa-input-email\"]", RunEnv.MAIN_USER_LOGIN>>],
       [op |-> "fill", arg |-> <<"[data-testid=\"qa-input-password\"]", RunEnv.MAIN_USER_PASSWORD>>],
       [op |-> "click", arg |-> "[data-testid=\"qa-btn-login\"]"],
       [op |-> "waitForLoadState", arg |-> "networkidle"] >>

\* C21: a test that was given the page of loggedUserPage holds a page that
\* was opened for it and on which exactly the login sequence was performed,
\* in order and ending with the finished network-idle wait; a test whose page
\* has not gone through the whole sequence has been given nothing.
C21_LoginBeforeActivation ==
    \A t \in Tests :
        tests[t].fixture = "loggedUserPage"
            => /\ tests[t].given.kind = "page"
                    => /\ tests[t].given.page \in 1..Len(pages)
                       /\ tests[t].given.page = tests[t].page
                       /\ pages[tests[t].page].log = LoginSequence
               /\ (tests[t].page = 0 \/ pages[tests[t].page].log # LoginSequence)
                    => tests[t].given = NoValue

\* a test runs its body with the logged-in page
C21_Witness ==
    \E t \in Tests :
        /\ tests[t].fixture = "loggedUserPage"
        /\ tests[t].phase = "body"
        /\ tests[t].given.kind = "page"
        /\ Len(pages[tests[t].given.page].log) = 5

\* the fixture of the test is in the middle of its login call
LoggingIn(test) == test.phase = "setup" /\ test.calling

\* C22: for every test that asked for authenticatedTemplateAPIClient, the
\* fixture makes at most one login call; while that call is in flight it is
\* one POST to the login endpoint with the configured login and password as
\* body and the test has been given nothing; a test that was given the
\* client has a fixture that made exactly one login call, which returned;
\* a test whose login call raised has ended, failed, without the client.
C22_OneLoginBeforeActivation ==
    \A t \in Tests :
        tests[t].fixture = "authenticatedTemplateAPIClient"
            => /\ tests[t].loginCalls <= 1
               /\ LoggingIn(tests[t])
                    => /\ tests[t].given = NoValue
                       /\ Len(calls) = 1
                       /\ calls[1].verb = "POST"
                       /\ calls[1].url = RunEnv.API_BASE_URL \o "/" \o urlsConfig.auth.login
                       /\ calls[1].body = [email |-> RunEnv.MAIN_USER_LOGIN,
                                           password |-> RunEnv.MAIN_USER_PASSWORD]
               /\ tests[t].given # NoValue
                    => /\ tests[t].given.kind = "client"
                       /\ tests[t].loginCalls = 1
                       /\ tests[t].authResponse.kind = "returned"
               /\ tests[t].authResponse = NoValue /\ tests[t].phase = "ended"
                    => /\ tests[t].given = NoValue
                       /\ tests[t].status = "failed"

\* one test runs its body with the client after a login that returned, and
\* another has ended without the client after a login that raised
C22_Witness ==
    \E t1, t2 \in Tests :
        /\ tests[t1].fixture = "authenticatedTemplateAPIClient"
        /\ tests[t1].phase = "body"
        /\ tests[t1].given.kind = "client"
        /\ tests[t1].loginCalls = 1
        /\ tests[t2].fixture = "authenticatedTemplateAPIClient"
        /\ tests[t2].phase = "ended"
        /\ tests[t2].loginCalls = 1
        /\ tests[t2].error # NoValue
        /\ tests[t2].given = NoValue

\* the client method calls made so far by the tests of S
RECURSIVE MethodCalls(_)
MethodCalls(S) ==
    IF S = {} THEN 0
    ELSE LET t == CHOOSE x \in S : TRUE
         IN  tests[t].methodCalls + MethodCalls(S \ {t})

\* the method, registry endpoint and body of each client method
FixedMapping(c) ==
    CASE c.method = "getData" ->
            [method |-> "GET", endpoint |-> urlsConfig.template.getData, body |-> NoBody]
      [] c.method = "postData" ->
            [method |-> "POST", endpoint |-> urlsConfig.template.postData, body |-> c.body]
      [] c.method = "login" ->
            [method |-> "POST", endpoint |-> urlsConfig.auth.login, body |-> c.credentials]

\* C23: every client method call is one helper invocation; while a call of
\* getData, postData or login is in flight, the helper was given the
\* validated API_BASE_URL as base URL and the method and registry endpoint
\* fixed for that client method, postData and login carry their argument as
\* body, login passes no token, and one HTTP call was issued for it.
C23_FixedClientMapping ==
    /\ MethodCalls(Tests) = nInvoked
    /\ \A t \in Tests :
          tests[t].calling
             => LET m == FixedMapping(tests[t].call) IN
                /\ data.baseUrl = RunEnv.API_BASE_URL
                /\ data.method = m.method
                /\ data.endpoint = m.endpoint
                /\ m.body # NoBody => data.body = m.body
                /\ tests[t].call.method = "getData" => ~Has(data, "body")
                /\ tests[t].call.method = "login" => ~Has(data, "token")
                /\ Len(calls) = 1
                /\ calls[1].verb = m.method
                /\ calls[1].url = RunEnv.API_BASE_URL \o "/" \o m.endpoint
                /\ calls[1].body = m.body

\* the three methods have been called: a login by a fixture, a getData that
\* has returned, and a postData that is in flight
C23_Witness ==
    /\ nInvoked = 3
    /\ \E t \in Tests : tests[t].loginCalls = 1
    /\ \E t \in Tests : tests[t].calling /\ tests[t].call.method = "postData"
    /\ \E t \in Tests : tests[t].fixture = "templateAPIClient" /\ tests[t].methodCalls = 2

\* C24: in every step, a page manager that a test holds stays as it is, and
\* a page manager that a test holds after the step has as its page the page
\* its constructor was given, and its loginPage holds that same page.
C24_ManagerSharesPage ==
    [][\A t \in Tests :
          /\ tests[t].given.kind = "manager" => tests'[t].given = tests[t].given
          /\ tests'[t].given.kind = "manager"
                => /\ tests'[t].given.page = tests'[t].page
                   /\ tests'[t].given.loginPage.page = tests'[t].given.page]_vars

\* a test has ended that ran with a page manager over its logged-in page
C24_Witness ==
    \E t \in Tests :
        /\ tests[t].phase = "ended"
        /\ tests[t].given.kind = "manager"
        /\ tests[t].page # 0
        /\ tests[t].given.loginPage.page = tests[t].page

\* C25: for every test that asked for loggedUserTemplatePageManager: a page
\* manager it holds was constructed over the page that loggedUserPage opened
\* and logged in for this test; that page stays open while the test is being
\* set up, runs its body or waits for its teardown; and the page is closed
\* only when the test was given the manager and its body has completed.
C25_ManagerWithinPageLifetime ==
    \A t \in Tests :
        tests[t].fixture = "loggedUserTemplatePageManager"
            => /\ tests[t].given # NoValue
                    => /\ tests[t].given.kind = "manager"
                       /\ tests[t].given.page \in 1..Len(pages)
                       /\ tests[t].given.page = tests[t].page
                       /\ pages[tests[t].given.page].log = LoginSequence
               /\ tests[t].page \in 1..Len(pages)
                    => /\ tests[t].phase \in {"setup", "body", "teardown"}
                            => pages[tests[t].page].open
                       /\ ~pages[tests[t].page].open
                            => /\ tests[t].phase = "ended"
                               /\ tests[t].given # NoValue
                               /\ tests[t].status \in {"passed", "failed"}

\* a test runs its body with a page manager over its open page, and another
\* has ended and the page of its manager is closed
C25_Witness ==
    \E t1, t2 \in Tests :
        /\ tests[t1].phase = "body"
        /\ tests[t1].given.kind = "manager"
        /\ pages[tests[t1].given.page].open
        /\ tests[t2].phase = "ended"
        /\ tests[t2].given.kind = "manager"
        /\ ~pages[tests[t2].given.page].open

\* the token argument of a client method call: login takes none
TokenArgument(c) == IF c.method = "login" THEN EmptyRec ELSE c.token

C27_DependenciesConstructible ==
    \A t \in Tests :
        tests[t].fixture \in DefinedFixtures
            => /\ \A g \in Dependencies[tests[t].fixture] : Resolvable(g)
               /\ tests[t].fixture = "templatePageManager" /\ tests[t].phase = "ended"
                    => tests[t].given.kind = "manager"

----------------------------------------------------------------------------
(* Properties of complete runs (specification FixLiveSpec) *)

\* the page that loggedUserPage opened for the test has been closed
PageClosed(t) == tests[t].page # 0 /\ ~pages[tests[t].page].open

\* C28: every page that loggedUserPage has opened for a test is closed at
\* some later point of the run, whether or not the login sequence on it
\* was completed.
C28_OpenedPagesClosed ==
    \A t \in Tests : (tests[t].page # 0) ~> PageClosed(t)

----------------------------------------------------------------------------
(* Transport errors (specification Spec) *)

\* C29: an invocation whose HTTP call failed without any response has ended
\* by raising, for every supported method and for allowBadRequest true,
\* false or omitted, and has returned no value.
C29_TransportErrorRaises ==
    (pc = "done" /\ response.kind = "transport")
        => /\ outcome.kind = "raised"
           /\ outcome.kind # "returned"
           /\ data.method \in HttpMethods

\* the call of an invocation with allowBadRequest true got no response and
\* the invocation raised
C29_Witness ==
    /\ pc = "done"
    /\ response.kind = "transport"
    /\ AllowTrue
    /\ data.method = "POST"
    /\ outcome.kind = "raised"

====
